---- MODULE Spec2Model ----
(***************************************************************************)
(* Model of the Discord link-rewriter bot (src/bot.py): URL parsing and    *)
(* host substitution, the Instagram share-link resolver, the metadata      *)
(* extractor, the enrichment fallback and the on_message handler.          *)
(*                                                                         *)
(* Text is modelled as TLA+ strings, character by character.  Python's     *)
(* None is the empty tuple and a present value x is the one-element tuple  *)
(* <<x>>, so that optional values stay comparable.                         *)
(***************************************************************************)
EXTENDS Integers, Sequences, FiniteSets, TLC

VARIABLES
    url,        \* SpecRewrite: the URL the first _rewrite_one call was given
    phase,      \* SpecRewrite: 1 = rewriting url, 2 = rewriting the mirror again
    first,      \* SpecRewrite: what the first call returned and resolved
    rw_pc,      \* position inside _rewrite_one: idle, start, head, get, done
    rw_url,     \* argument of the running _rewrite_one call
    rw_final,   \* _rewrite_instagram's `final` (None until resolved)
    rw_out,     \* value returned by _rewrite_one: [mirror, canonical]
    reqs,       \* HTTP requests issued by _resolve_instagram_share, in order
    head_out,   \* outcome of the HEAD request, None before it is issued
    get_out,    \* outcome of the GET request, None before it is issued
    html,       \* SpecMeta: the page handed to _extract_og_twitter_meta
    meta_pc,    \* SpecMeta: idle, ready, done, raised
    meta_out,   \* SpecMeta: [author, caption] returned by the extractor
    message,    \* on_message: the message, [content, bot]
    msg_pc,     \* on_message: idle, start, rewrite, enrich, post, noop, aborted
    found_links, \* on_message: URL_RE.findall(content)
    idx,        \* on_message: loop index (found_links, then triples)
    seen,       \* on_message: the `seen` set
    calls,      \* on_message: the _rewrite_one calls so far, [link, mirror]
    triples,    \* on_message: the `triples` list
    blocks,     \* on_message: the `blocks` list
    en_pc,      \* _ig_author_caption: idle, call, canon, mirror, done, raised
    en_args,    \* _ig_author_caption: [canonical, mirror]
    fetches,    \* _fetch_text calls of the running enrichment: [stage, url, out]
    canon_res,  \* what _ig_from_canonical returned (None while not returned)
    en_out      \* value returned by _ig_author_caption

vars == <<url, phase, first, rw_pc, rw_url, rw_final, rw_out, reqs, head_out,
          get_out, html, meta_pc, meta_out, message, msg_pc, found_links, idx,
          seen, calls, triples, blocks, en_pc, en_args, fetches, canon_res, en_out>>

rwVars  == <<rw_pc, rw_url, rw_final, rw_out, reqs, head_out, get_out>>
topVars == <<url, phase, first>>
metaVars == <<html, meta_pc, meta_out>>
msgVars == <<message, msg_pc, found_links, idx, seen, calls, triples, blocks>>
enVars  == <<en_pc, en_args, fetches, canon_res, en_out>>

None == <<>>
Some(x) == <<x>>
Val(o) == o[1]

----------------------------------------------------------------------------
(* String helpers (Python str methods).                                    *)

\* s[a-1:b] for 1 <= a; empty when the slice is.
Sub(s, a, b) ==
    IF a > b \/ a > Len(s) THEN ""
    ELSE IF b > Len(s) THEN SubSeq(s, a, Len(s)) ELSE SubSeq(s, a, b)

Ch(s, i) == Sub(s, i, i)

StartsWith(s, p) == Len(p) <= Len(s) /\ Sub(s, 1, Len(p)) = p

EndsWith(s, p) == Len(p) <= Len(s) /\ Sub(s, Len(s) - Len(p) + 1, Len(s)) = p

Drop(s, n) == Sub(s, n + 1, Len(s))

MinOf(S) == CHOOSE m \in S : \A k \in S : m <= k
MaxOf(S) == CHOOSE m \in S : \A k \in S : m >= k

\* Least index >= from whose character is in cs, 0 when there is none.
Find(s, cs, from) ==
    LET I == {i \in from..Len(s) : Ch(s, i) \in cs}
    IN  IF I = {} THEN 0 ELSE MinOf(I)

\* Greatest index whose character is in cs, 0 when there is none.
RFind(s, cs) ==
    LET I == {i \in 1..Len(s) : Ch(s, i) \in cs}
    IN  IF I = {} THEN 0 ELSE MaxOf(I)

Contains(s, c) == Find(s, {c}, 1) # 0

UpperChars == "ABCDEFGHIJKLMNOPQRSTUVWXYZ"
LowerChars == "abcdefghijklmnopqrstuvwxyz"

LowerChar(c) ==
    LET i == Find(UpperChars, {c}, 1)
    IN  IF i = 0 THEN c ELSE Ch(LowerChars, i)

RECURSIVE Lower(_)
Lower(s) == IF s = "" THEN "" ELSE LowerChar(Ch(s, 1)) \o Lower(Drop(s, 1))

----------------------------------------------------------------------------
(* urllib.parse: urlparse, ParseResult.hostname, urlunparse.               *)

SchemeChars ==
    {Ch(LowerChars, i) : i \in 1..26} \cup {Ch(UpperChars, i) : i \in 1..26}
    \cup {"0", "1", "2", "3", "4", "5", "6", "7", "8", "9", "+", "-", "."}

\* urlsplit, in the order the library splits: scheme, netloc, fragment,
\* query, and what is left is the path.  ok = FALSE stands for the
\* ValueError urlsplit raises on an unbalanced IPv6 bracket.  The ";params"
\* component is never split off because no modelled URL holds a ';'.
ParseError ==
    [ok |-> FALSE, scheme |-> "", netloc |-> "", path |-> "",
     query |-> "", fragment |-> ""]

SplitQuery(r, scheme, netloc, frag) ==
    LET q == Find(r, {"?"}, 1)
    IN  [ok |-> TRUE, scheme |-> scheme, netloc |-> netloc,
         path |-> IF q = 0 THEN r ELSE Sub(r, 1, q - 1),
         query |-> IF q = 0 THEN "" ELSE Drop(r, q),
         fragment |-> frag]

SplitFragment(r, scheme, netloc) ==
    LET f == Find(r, {"#"}, 1)
    IN  SplitQuery(IF f = 0 THEN r ELSE Sub(r, 1, f - 1), scheme, netloc,
                   IF f = 0 THEN "" ELSE Drop(r, f))

CheckNetloc(netloc, r, scheme) ==
    IF Contains(netloc, "[") # Contains(netloc, "]")
    THEN ParseError
    ELSE SplitFragment(r, scheme, netloc)

SplitNetloc(r, scheme) ==
    LET d == Find(r, {"/", "?", "#"}, 3)
    IN  IF ~StartsWith(r, "//") THEN SplitFragment(r, scheme, "")
        ELSE IF d = 0 THEN CheckNetloc(Drop(r, 2), "", scheme)
        ELSE CheckNetloc(Sub(r, 3, d - 1), Drop(r, d - 1), scheme)

\* Index of the ':' that ends a scheme, 0 when u has no scheme.
SchemeEnd(u) ==
    LET c == Find(u, {":"}, 1)
    IN  IF c > 1 /\ \A i \in 1..(c - 1) : Ch(u, i) \in SchemeChars THEN c ELSE 0

urlparse(u) ==
    LET c == SchemeEnd(u)
    IN  IF c = 0 THEN SplitNetloc(u, "")
        ELSE SplitNetloc(Drop(u, c), Lower(Sub(u, 1, c - 1)))

\* ParseResult.hostname: userinfo and port cut off, lower-cased, None if empty.
Bracketed(br) ==
    LET cb == Find(br, {"]"}, 1)
    IN  IF cb = 0 THEN br ELSE Sub(br, 1, cb - 1)

BeforeColon(hi) ==
    LET col == Find(hi, {":"}, 1)
    IN  IF col = 0 THEN hi ELSE Sub(hi, 1, col - 1)

HostPart(hi) ==
    LET ob == Find(hi, {"["}, 1)
    IN  IF ob # 0 THEN Bracketed(Drop(hi, ob)) ELSE BeforeColon(hi)

NoneIfEmpty(h) == IF h = "" THEN None ELSE Some(Lower(h))

hostname(p) == NoneIfEmpty(HostPart(Drop(p.netloc, RFind(p.netloc, {"@"}))))

\* urlunparse (urlunsplit): empty query and fragment lose their delimiter.
AddQueryFragment(u, p) ==
    (IF p.query # "" THEN u \o "?" \o p.query ELSE u)
        \o (IF p.fragment # "" THEN "#" \o p.fragment ELSE "")

AddScheme(u, p) ==
    AddQueryFragment(IF p.scheme # "" THEN p.scheme \o ":" \o u ELSE u, p)

\* urlunparse with the fragment forgotten.
urlunparse_dropsFragment(p) ==
    AddScheme("//" \o p.netloc \o p.path, [p EXCEPT !.fragment = ""])

\* The schemes of urllib's uses_netloc that the modelled URLs can carry.
uses_netloc == {"http", "https", "ftp", "ws", "wss"}

urlunparse(p) ==
    IF p.netloc # "" \/ (p.scheme \in uses_netloc /\ ~StartsWith(p.path, "//"))
    THEN AddScheme("//" \o p.netloc
                   \o (IF p.path # "" /\ ~StartsWith(p.path, "/") THEN "/" ELSE "")
                   \o p.path, p)
    ELSE AddScheme(p.path, p)

\* p._replace(netloc=m)
ReplaceNetloc(p, m) == [p EXCEPT !.netloc = m]

----------------------------------------------------------------------------
(* Rewriting configuration.                                                *)

DEFAULT_MIRRORS ==
    [k \in {"twitter.com", "x.com", "instagram.com", "reddit.com",
            "tiktok.com", "bsky.app"} |->
        CASE k = "twitter.com"   -> "fixupx.com"
          [] k = "x.com"         -> "fixupx.com"
          [] k = "instagram.com" -> "kkinstagram.com"
          [] k = "reddit.com"    -> "rxddit.com"
          [] k = "tiktok.com"    -> "vxtiktok.com"
          [] k = "bsky.app"      -> "bskx.app"]

\* dict.get
MirrorsGet(k) == IF k \in DOMAIN DEFAULT_MIRRORS THEN Some(DEFAULT_MIRRORS[k]) ELSE None

\* SKIP_HOSTS as it would be had the x.com mirror been changed in
\* DEFAULT_MIRRORS alone.
SKIP_HOSTS_stale ==
    {"fxtwitter.com",
     "kkinstagram.com", "uuinstagram.com", "instagramez.com",
     "rxddit.com", "vxreddit.com",
     "vxtiktok.com",
     "bskx.app", "bskyx.app"}

SKIP_HOSTS ==
    {"fxtwitter.com", "fixupx.com",
     "kkinstagram.com", "uuinstagram.com", "instagramez.com",
     "rxddit.com", "vxreddit.com",
     "vxtiktok.com",
     "bskx.app", "bskyx.app"}

\* The prefixes with the long-form video type left out.
SUPPORTED_IG_POST_PREFIXES_noTv == {"/reel/", "/p/"}

SUPPORTED_IG_POST_PREFIXES == {"/reel/", "/p/", "/tv/"}
STORY_PREFIX == "/stories/"

----------------------------------------------------------------------------
(* Domain routing.                                                         *)

pick_source(host) ==
    LET h == Lower(host)
    IN  IF EndsWith(h, "twitter.com") \/ EndsWith(h, "x.com") THEN Some("x.com")
        ELSE IF EndsWith(h, "instagram.com") THEN Some("instagram.com")
        ELSE IF EndsWith(h, "reddit.com") THEN Some("reddit.com")
        ELSE IF EndsWith(h, "tiktok.com") THEN Some("tiktok.com")
        ELSE IF EndsWith(h, "bsky.app") THEN Some("bsky.app")
        ELSE None

----------------------------------------------------------------------------
(* _rewrite_one and _rewrite_instagram as values: what is returned for a   *)
(* URL once the share link, if any, has been resolved.                     *)

NoOutcome == [mirror |-> None, canonical |-> None]

\* (p.hostname or "").lower()
OrEmpty(o) == IF o = None THEN "" ELSE Val(o)

HostOf(p) == Lower(OrEmpty(hostname(p)))

\* _rewrite_instagram from the story check on: p is the parsed URL being
\* classified, canonical the URL handed back.
ClassifyInstagram(p, canonical) ==
    IF StartsWith(p.path, STORY_PREFIX)
    THEN [mirror |-> None, canonical |-> Some(canonical)]
    ELSE IF \E pre \in SUPPORTED_IG_POST_PREFIXES : StartsWith(p.path, pre)
    THEN IF MirrorsGet("instagram.com") = None
         THEN [mirror |-> None, canonical |-> Some(canonical)]
         ELSE [mirror |-> Some(urlunparse(ReplaceNetloc(p, Val(MirrorsGet("instagram.com"))))),
               canonical |-> Some(canonical)]
    ELSE [mirror |-> None, canonical |-> Some(canonical)]

\* _rewrite_instagram after _resolve_instagram_share returned `final`.
ClassifyParsed(p, canonical) ==
    IF ~p.ok THEN NoOutcome ELSE ClassifyInstagram(p, canonical)

AfterResolve(final) ==
    IF final = None \/ Val(final) = "" THEN NoOutcome
    ELSE ClassifyParsed(urlparse(Val(final)), Val(final))

\* The generic branch of _rewrite_one.
SwapNetloc(u, p, mirror) ==
    LET new_url == urlunparse(ReplaceNetloc(p, mirror))
    IN  [mirror |-> IF new_url # u THEN Some(new_url) ELSE None,
         canonical |-> None]

RouteGeneric(u, p, src) ==
    IF src = None THEN NoOutcome
    ELSE IF MirrorsGet(Val(src)) = None THEN NoOutcome
    ELSE SwapNetloc(u, p, Val(MirrorsGet(Val(src))))

RewriteGeneric(u, p, host) == RouteGeneric(u, p, pick_source(host))

\* Which way _rewrite_one goes for u: "none", "share", "instagram", "generic".
BranchOf(p, host) ==
    IF ~p.ok THEN "none"
    ELSE IF host = "" \/ host \in SKIP_HOSTS THEN "none"
    ELSE IF EndsWith(host, "instagram.com")
         THEN (IF StartsWith(p.path, "/share/") THEN "share" ELSE "instagram")
    ELSE "generic"

BranchParsed(p) == BranchOf(p, HostOf(p))

Branch(u) == BranchParsed(urlparse(u))

----------------------------------------------------------------------------
(* HTTP: what one request of _resolve_instagram_share can end in.          *)

HttpErrors == {"timeout", "network", "protocol"}

\* URLs a share link may end at; u itself is the response to a request that
\* was not redirected.
RedirectTargets(u) ==
    {u,
     "https://www.instagram.com/reel/Cx1/?igsh=1",
     "https://www.instagram.com/p/Bq2/",
     "https://www.instagram.com/stories/abc/999",
     "https://www.instagram.com/accounts/login/"}

HttpOutcomes(u) ==
    [kind : HttpErrors, url : {""}] \cup [kind : {"resp"}, url : RedirectTargets(u)]

----------------------------------------------------------------------------
(* The _rewrite_one call as a process: start, then for a share link the    *)
(* HEAD request and, if it raised, the GET request.                        *)

\* What _rewrite_one returns without awaiting anything (a share link has
\* no outcome yet).
StartOutcome(u, p, b) ==
    CASE b = "none"      -> NoOutcome
      [] b = "share"     -> NoOutcome
      [] b = "instagram" -> ClassifyInstagram(p, u)
      [] b = "generic"   -> RewriteGeneric(u, p, HostOf(p))

RwIdle ==
    /\ rw_pc = "idle" /\ rw_url = "" /\ rw_final = None
    /\ rw_out = NoOutcome /\ reqs = <<>> /\ head_out = None /\ get_out = None

\* _rewrite_one up to the first await (lines 150-168, 115-120).
RewriteStart ==
    /\ rw_pc = "start"
    /\ rw_pc' = IF Branch(rw_url) = "share" THEN "head" ELSE "done"
    /\ rw_out' = StartOutcome(rw_url, urlparse(rw_url), Branch(rw_url))
    /\ UNCHANGED <<rw_url, rw_final, reqs, head_out, get_out>>

\* sess.head(url, allow_redirects=True): any response is returned as the
\* resolved URL, an exception falls through to the GET.
ResolveHead ==
    /\ rw_pc = "head"
    /\ \E o \in HttpOutcomes(rw_url) :
        /\ reqs' = Append(reqs, "HEAD")
        /\ head_out' = Some(o)
        /\ IF o.kind = "resp"
           THEN /\ rw_final' = Some(o.url)
                /\ rw_out' = AfterResolve(Some(o.url))
                /\ rw_pc' = "done"
           ELSE /\ rw_pc' = "get"
                /\ UNCHANGED <<rw_final, rw_out>>
    /\ UNCHANGED <<rw_url, get_out>>

\* sess.get(url, allow_redirects=True): an exception makes the resolver
\* return None.
ResolveGet ==
    /\ rw_pc = "get"
    /\ \E o \in HttpOutcomes(rw_url) :
        /\ reqs' = Append(reqs, "GET")
        /\ get_out' = Some(o)
        /\ rw_final' = IF o.kind = "resp" THEN Some(o.url) ELSE None
        /\ rw_out' = AfterResolve(IF o.kind = "resp" THEN Some(o.url) ELSE None)
        /\ rw_pc' = "done"
    /\ UNCHANGED <<rw_url, head_out>>

----------------------------------------------------------------------------
(* Text helpers.                                                           *)

\* The characters the regular expression class \s and str.strip() remove.
IsSpace(c) == c \in {" ", "\t", "\n"}

\* str.strip()
Strip(s) ==
    LET I == {i \in 1..Len(s) : ~IsSpace(Ch(s, i))}
    IN  IF I = {} THEN "" ELSE Sub(s, MinOf(I), MaxOf(I))

\* re.sub(r"\s+", " ", s) on s[lo..hi]: the first character of a run of white
\* space becomes one space, the others vanish.
RECURSIVE SubWs(_, _, _)
SubWs(s, lo, hi) ==
    IF lo > hi THEN ""
    ELSE IF lo = hi
    THEN (IF ~IsSpace(Ch(s, lo)) THEN Ch(s, lo)
          ELSE IF lo > 1 /\ IsSpace(Ch(s, lo - 1)) THEN "" ELSE " ")
    ELSE SubWs(s, lo, (lo + hi) \div 2) \o SubWs(s, (lo + hi) \div 2 + 1, hi)

compact_ws(s) == Strip(SubWs(s, 1, Len(s)))

\* The caption budget, _truncate's default max_len.
MaxCaptionLen == 600

\* Stands for the one-character ellipsis U+2026, which a TLA+ string cannot hold.
ELLIPSIS == "~"

truncate(s) ==
    IF Len(s) <= MaxCaptionLen THEN s ELSE Sub(s, 1, MaxCaptionLen - 1) \o ELLIPSIS

----------------------------------------------------------------------------
(* Python values scraped from a page.  A value is None or <<[t, s]>> with  *)
(* t the type ("str", "num", "obj" for a nested list or object) and s its  *)
(* text.                                                                   *)

Str(s) == Some([t |-> "str", s |-> s])
Num(s) == Some([t |-> "num", s |-> s])
Obj(s) == Some([t |-> "obj", s |-> s])

\* bool(v)
Truthy(v) ==
    /\ v # None
    /\ \/ Val(v).t = "str" /\ Val(v).s # ""
       \/ Val(v).t = "num" /\ Val(v).s # "0"
       \/ Val(v).t = "obj" /\ Val(v).s \notin {"[]", "{}"}

\* x or y
PyOr(x, y) == IF Truthy(x) THEN x ELSE y

----------------------------------------------------------------------------
(* _parse_ig_from_og.                                                      *)

\* Stand for the typographic quotes U+201C and U+201D of the pattern.
LDQUO == "{"
RDQUO == "}"

\* Length of the run of white space of t that starts at index j.
WsRun(t, j) ==
    LET I == {i \in j..Len(t) : ~IsSpace(Ch(t, i))}
    IN  IF I = {} THEN Len(t) - j + 1 ELSE MinOf(I) - j

\* r after an optional ':' and any white space begins with an opening quote:
\* the index in r of that quote, 0 when there is none.
OpeningQuote(r) ==
    LET c == IF StartsWith(r, ":") THEN 1 ELSE 0
    IN  IF Ch(r, c + WsRun(r, c + 1) + 1) \in {"\"", LDQUO}
        THEN c + WsRun(r, c + 1) + 1 ELSE 0

\* t from index j on matches \s+on Instagram:?\s*["LDQUO]: the index in t of
\* the opening quote, 0 when it does not match.
TailMatch(t, j) ==
    LET k == j + WsRun(t, j)
    IN  IF k = j \/ ~StartsWith(Drop(t, k - 1), "on Instagram") THEN 0
        ELSE IF OpeningQuote(Drop(t, k + 11)) = 0 THEN 0
        ELSE k + 11 + OpeningQuote(Drop(t, k + 11))

\* (.*?)["RDQUO]?\s*$ on the text after the opening quote: the lazy group is
\* the text without its trailing white space and without one closing quote.
CaptionGroup(r) ==
    LET I == {i \in 1..Len(r) : ~IsSpace(Ch(r, i))}
    IN  IF I = {} THEN ""
        ELSE IF Ch(r, MaxOf(I)) \in {"\"", RDQUO} THEN Sub(r, 1, MaxOf(I) - 1)
        ELSE Sub(r, 1, MaxOf(I))

\* re.match of the title pattern on t: None, or the two groups.  The lazy
\* first group ends at the first index the rest matches from.
TitleMatch(t) ==
    LET I == {i \in 1..Len(t) : ~Contains(Sub(t, 1, i), "\n") /\ TailMatch(t, i + 1) # 0}
    IN  IF I = {} \/ Contains(t, "\n") THEN None
        ELSE Some([g1 |-> Sub(t, 1, MinOf(I)),
                   g2 |-> CaptionGroup(Drop(t, TailMatch(t, MinOf(I) + 1)))])

\* The author and caption the title gives (lines 197-201).
FromTitle(og_title) ==
    IF og_title = None \/ Val(og_title) = "" THEN [author |-> None, caption |-> None]
    ELSE IF TitleMatch(Strip(Val(og_title))) = None THEN [author |-> None, caption |-> None]
    ELSE [author  |-> Str(compact_ws(Val(TitleMatch(Strip(Val(og_title)))).g1)),
          caption |-> Str(compact_ws(Val(TitleMatch(Strip(Val(og_title)))).g2))]

\* _parse_ig_from_og with the description used only when the title gave no
\* caption.
parse_ig_from_og_titleFirst(og_title, og_desc) ==
    [author  |-> FromTitle(og_title).author,
     caption |-> IF og_desc # None /\ Val(og_desc) # "" /\ ~Truthy(FromTitle(og_title).caption)
                 THEN Str(compact_ws(Val(og_desc)))
                 ELSE FromTitle(og_title).caption]

parse_ig_from_og(og_title, og_desc) ==
    [author  |-> FromTitle(og_title).author,
     caption |-> IF og_desc # None /\ Val(og_desc) # ""
                 THEN Str(compact_ws(Val(og_desc)))
                 ELSE FromTitle(og_title).caption]


----------------------------------------------------------------------------
(* Inputs of the rewrite specification.                                    *)

Schemes == {"https", "HTTP"}

Hosts ==
    {"x.com", "twitter.com", "www.twitter.com", "X.COM", "mobile.x.com",
     "netflix.com", "instagram.com", "www.instagram.com", "notinstagram.com",
     "reddit.com", "old.reddit.com", "vm.tiktok.com", "bsky.app",
     "fixupx.com", "FixupX.com", "kkinstagram.com", "rxddit.com",
     "example.org"}

Ports == {"", ":8080"}

Paths ==
    {"", "/user/status/123", "/reel/abc/", "/p/xyz", "/tv/1",
     "/stories/abc/999", "/share/r/abc", "/explore"}

Queries == {"", "?", "?igsh=1"}

Fragments == {"", "#top"}

\* URLs that do not parse into a host: an unbalanced bracket, no scheme,
\* an empty network location.
RawUrls == {"http://[x.com/a", "x.com/user", "https:///nohost", "https://user@x.com/a"}

MetaIdle == html = None /\ meta_pc = "idle" /\ meta_out = None

MsgIdle ==
    /\ message = None /\ msg_pc = "idle" /\ found_links = <<>> /\ idx = 0
    /\ seen = {} /\ calls = <<>> /\ triples = <<>> /\ blocks = <<>>

EnIdle ==
    /\ en_pc = "idle" /\ en_args = None /\ fetches = <<>>
    /\ canon_res = None /\ en_out = None

InitRewrite ==
    /\ \/ \E s \in Schemes, h \in Hosts, po \in Ports, pa \in Paths,
             q \in Queries, f \in Fragments :
               url = s \o "://" \o h \o po \o pa \o q \o f
       \/ url \in RawUrls
    /\ phase = 1
    /\ first = None
    /\ rw_pc = "start" /\ rw_url = url /\ rw_final = None
    /\ rw_out = NoOutcome /\ reqs = <<>> /\ head_out = None /\ get_out = None
    /\ MetaIdle /\ MsgIdle /\ EnIdle

\* The mirror URL a call returned is given to _rewrite_one again.
RewriteAgain ==
    /\ phase = 1
    /\ rw_pc = "done"
    /\ rw_out.mirror # None
    /\ phase' = 2
    /\ first' = Some([out |-> rw_out, final |-> rw_final, reqs |-> reqs])
    /\ rw_url' = Val(rw_out.mirror)
    /\ rw_pc' = "start"
    /\ rw_final' = None /\ rw_out' = NoOutcome /\ reqs' = <<>>
    /\ head_out' = None /\ get_out' = None
    /\ UNCHANGED url

NextRewrite ==
    \/ RewriteStart /\ UNCHANGED <<topVars, metaVars, msgVars, enVars>>
    \/ ResolveHead /\ UNCHANGED <<topVars, metaVars, msgVars, enVars>>
    \/ ResolveGet /\ UNCHANGED <<topVars, metaVars, msgVars, enVars>>
    \/ RewriteAgain /\ UNCHANGED <<metaVars, msgVars, enVars>>

SpecRewrite == InitRewrite /\ [][NextRewrite]_vars

----------------------------------------------------------------------------
(* _extract_og_twitter_meta.  A page is what BeautifulSoup makes of the    *)
(* HTML: its meta tags in document order and its application/ld+json       *)
(* script blocks in document order.  A script block is malformed JSON      *)
(* (bad) or the list `items` the loop runs over: the elements of a JSON    *)
(* array, or the one value that is not an array.  An element that is an    *)
(* object (isdict) has the four keys the code reads; `author` is an object *)
(* ("dict"), an array ("list") or anything else ("other"), with the        *)
(* members of the object, or of the array, in `items`.                     *)

\* soup.find("meta", attrs={attr: key}): the content of the first such tag.
FindMeta(metas, attr, key) ==
    LET I == {i \in 1..Len(metas) : metas[i].attr = attr /\ metas[i].key = key}
    IN  IF I = {} THEN None ELSE metas[MinOf(I)].content

\* tag.get("content") if tag and tag.get("content") else None
NonEmpty(c) == IF c = None \/ Val(c) = "" THEN None ELSE c

meta(page, attr, key) == NonEmpty(FindMeta(page.metas, attr, key))

\* og_title / og_desc after lines 215-224: the og: tag, else the twitter: tag.
TagValue(page, ogKey, twKey) ==
    IF meta(page, "property", ogKey) # None THEN meta(page, "property", ogKey)
    ELSE meta(page, "name", twKey)

FromTags(page) ==
    parse_ig_from_og(TagValue(page, "og:title", "twitter:title"),
                     TagValue(page, "og:description", "twitter:description"))

\* Lines 237-241: the author an element's "author" value gives, cur when it
\* is neither an object nor a list that starts with an object.
AuthorFrom(a, cur) ==
    IF a.t = "dict" THEN PyOr(a.items[1].name, a.items[1].alternateName)
    ELSE IF a.t = "list" /\ a.items # <<>> /\ a.items[1].isdict THEN a.items[1].name
    ELSE cur

\* One element of the loop of lines 233-243.
StepItem(d, acc) ==
    IF ~d.isdict THEN acc
    ELSE [author  |-> IF Truthy(acc.author) THEN acc.author
                      ELSE AuthorFrom(d.author, acc.author),
          caption |-> IF Truthy(acc.caption) THEN acc.caption
                      ELSE PyOr(PyOr(d.caption, d.description), d.articleBody)]

RECURSIVE FoldItems(_, _, _)
FoldItems(items, i, acc) ==
    IF i > Len(items) THEN acc
    ELSE FoldItems(items, i + 1, StepItem(items[i], acc))

\* One script block: json.loads raising skips the block.
RECURSIVE FoldScripts(_, _, _)
FoldScripts(scripts, i, acc) ==
    IF i > Len(scripts) THEN acc
    ELSE IF scripts[i].bad THEN FoldScripts(scripts, i + 1, acc)
    ELSE FoldScripts(scripts, i + 1, FoldItems(scripts[i].items, 1, acc))

\* Lines 228-245: the structured data is read unless both fields are set.
WithStructuredData(page, acc) ==
    IF Truthy(acc.author) /\ Truthy(acc.caption) THEN acc
    ELSE FoldScripts(page.scripts, 1, acc)

\* _compact_ws raises TypeError on a value that is not a string.
NotText(v) == Truthy(v) /\ Val(v).t # "str"

\* Lines 247-249.
Finish(acc) ==
    [raised  |-> NotText(acc.author) \/ NotText(acc.caption),
     author  |-> IF Truthy(acc.author) /\ ~NotText(acc.author)
                 THEN Some(compact_ws(Val(acc.author).s)) ELSE None,
     caption |-> IF Truthy(acc.caption) /\ ~NotText(acc.caption)
                 THEN Some(truncate(compact_ws(Val(acc.caption).s))) ELSE None]

extract_og_twitter_meta(page) == Finish(WithStructuredData(page, FromTags(page)))

----------------------------------------------------------------------------
(* Pages.                                                                  *)

RECURSIVE Rep(_, _)
Rep(c, n) ==
    IF n = 0 THEN "" ELSE IF n = 1 THEN c
    ELSE Rep(c, n \div 2) \o Rep(c, n - (n \div 2))

\* Length of the long description; it exceeds the caption budget.
LongCaptionLen == 601

Tag(attr, key, c) == [attr |-> attr, key |-> key, content |-> Some(c)]

\* The tag when the option holds a content, no tag otherwise.
TagIf(o, attr, key) == IF o = None THEN <<>> ELSE <<Tag(attr, key, Val(o))>>

Metas(ot, od, tt, td) ==
    TagIf(tt, "name", "twitter:title") \o TagIf(od, "property", "og:description")
        \o TagIf(ot, "property", "og:title") \o TagIf(td, "name", "twitter:description")

OgTitles ==
    {None, Some(""), Some("Jane on Instagram: \"hello  world\""),
     Some(" Jane  Doe on Instagram: \"\""), Some("Some page title")}

TwTitles == {None, Some("Bob on Instagram: {tw  cap}")}

OgDescs ==
    {None, Some(""), Some("  "), Some(" A  description "),
     Some(" " \o Rep("a", LongCaptionLen)), Some(Rep("b", MaxCaptionLen))}

TwDescs == {None, Some("tw desc")}

NoAuthor == [t |-> "other", items |-> <<>>]
Person(name, alt) == [isdict |-> TRUE, name |-> name, alternateName |-> alt]
AuthorDict(name, alt) == [t |-> "dict", items |-> <<Person(name, alt)>>]
AuthorList(ps) == [t |-> "list", items |-> ps]

Item(a, c, d, b) ==
    [isdict |-> TRUE, author |-> a, caption |-> c, description |-> d, articleBody |-> b]
NotAnObject == [isdict |-> FALSE, author |-> NoAuthor, caption |-> None,
                description |-> None, articleBody |-> None]

Script(items) == [bad |-> FALSE, items |-> items]
Malformed == [bad |-> TRUE, items |-> <<>>]

ScriptLists ==
    {<<>>,
     <<Malformed>>,
     <<Malformed, Script(<<Item(AuthorDict(Str("Jane"), None), None, None, None)>>)>>,
     <<Script(<<Item(NoAuthor, Str("   "), Str("ld desc"), None)>>)>>,
     <<Script(<<Item(AuthorDict(Str(" "), Str("alt")), None, None, None)>>)>>,
     <<Script(<<Item(AuthorDict(Num("5"), None), None, None, None)>>)>>,
     <<Script(<<Item(NoAuthor, Obj("{\"text\": 1}"), None, None)>>)>>,
     <<Script(<<NotAnObject,
                Item(AuthorList(<<Person(Str(" Ann  B "), None)>>), None,
                     Str("ld  desc"), Str("body"))>>)>>,
     <<Script(<<Item(AuthorDict(Str(""), Str("alt")), Str(""), None, Str("body"))>>),
       Script(<<Item(AuthorDict(Str("late"), None), Str("late cap"), None, None)>>)>>,
     <<Script(<<Item([t |-> "other", items |-> <<>>], Num("0"), None, None)>>)>>}

InitMeta ==
    /\ \E ot \in OgTitles, od \in OgDescs, tt \in TwTitles, td \in TwDescs,
          sc \in ScriptLists :
            html = Some([metas |-> Metas(ot, od, tt, td), scripts |-> sc])
    /\ meta_pc = "ready"
    /\ meta_out = None
    /\ url = "" /\ phase = 0 /\ first = None
    /\ RwIdle /\ MsgIdle /\ EnIdle

\* The call _extract_og_twitter_meta(html): it returns or raises TypeError.
ExtractMeta ==
    /\ meta_pc = "ready"
    /\ \E r \in {extract_og_twitter_meta(Val(html))} :
        /\ meta_pc' = IF r.raised THEN "raised" ELSE "done"
        /\ meta_out' = IF r.raised THEN None
                       ELSE Some([author |-> r.author, caption |-> r.caption])
    /\ UNCHANGED html

NextMeta == ExtractMeta /\ UNCHANGED <<topVars, rwVars, msgVars, enVars>>

SpecMeta == InitMeta /\ [][NextMeta]_vars


----------------------------------------------------------------------------
(* URL_RE.findall: https?://[^\s<]+[^<.,:;"')\]\s]                         *)

\* [^\s<]
BodyChar(c) == c # "" /\ ~IsSpace(c) /\ c # "<"

\* [^<.,:;"')\]\s]
TailChar(c) == BodyChar(c) /\ c \notin {".", ",", ":", ";", "\"", "'", ")", "]"}

\* Length of the https?:// that starts at index i of t, 0 when none does.
SchemeAt(t, i) ==
    IF StartsWith(Drop(t, i - 1), "https://") THEN 8
    ELSE IF StartsWith(Drop(t, i - 1), "http://") THEN 7
    ELSE 0

\* Last index of the run of body characters of t that starts at index b.
RunEnd(t, b) ==
    LET I == {i \in b..Len(t) : ~BodyChar(Ch(t, i))}
    IN  IF I = {} THEN Len(t) ELSE MinOf(I) - 1

\* Index the greedy match whose body starts at b ends at, 0 without a match.
TailEnd(t, b, r) ==
    LET E == {e \in (b + 1)..r : TailChar(Ch(t, e))}
    IN  IF E = {} THEN 0 ELSE MaxOf(E)

\* Index the match that starts at index i of t ends at, 0 without a match.
MatchEnd(t, i) ==
    IF SchemeAt(t, i) = 0 THEN 0
    ELSE TailEnd(t, i + SchemeAt(t, i), RunEnd(t, i + SchemeAt(t, i)))

RECURSIVE FindAllFrom(_, _)
FindAllFrom(t, i) ==
    IF i = 0 \/ i > Len(t) THEN <<>>
    ELSE IF MatchEnd(t, i) = 0 THEN FindAllFrom(t, Find(t, {"h"}, i + 1))
    ELSE <<Sub(t, i, MatchEnd(t, i))>> \o FindAllFrom(t, MatchEnd(t, i) + 1)

findall(t) == FindAllFrom(t, Find(t, {"h"}, 1))

----------------------------------------------------------------------------
(* _fetch_text, _ig_from_canonical, _ig_from_mirror, _ig_author_caption.   *)

\* Pages a fetch can return.
PageOf(ot, od, sc) == [metas |-> Metas(ot, od, None, None), scripts |-> sc]

FetchedPages ==
    {PageOf(Some("Jane on Instagram: \"hello  world\""), Some(" A  description "), <<>>),
     PageOf(Some("Some page title"), None, <<>>),
     PageOf(None, None,
            <<Script(<<Item(AuthorDict(Str("Jane"), None), None, None, None)>>)>>),
     PageOf(None, None,
            <<Script(<<Item(AuthorDict(Num("5"), None), None, None, None)>>)>>)}

NoPage == [metas |-> <<>>, scripts |-> <<>>]

\* What sess.get ends in: an exception, a status outside 2xx, a 2xx response
\* with an empty body, a 2xx response with a page.
FetchOutcomes ==
    [kind : {"error", "status", "empty"}, page : {NoPage}]
        \cup [kind : {"ok"}, page : FetchedPages]

\* _ig_from_canonical / _ig_from_mirror on the outcome of _fetch_text.
NoMeta == [raised |-> FALSE, author |-> None, caption |-> None]

StageResult(o) == IF o.kind # "ok" THEN NoMeta ELSE extract_og_twitter_meta(o.page)

\* bool(s) of an Optional[str]
TruthyStr(o) == o # None /\ Val(o) # ""

\* Line 282: if a or c
CanonicalSuffices(a, c) == TruthyStr(a) \/ TruthyStr(c)

Pair(r) == [author |-> r.author, caption |-> r.caption]

\* Line 280: if canonical_ig_url
IgAuthorCaption ==
    /\ en_pc = "call"
    /\ en_pc' = IF TruthyStr(Val(en_args).canonical) THEN "canon" ELSE "mirror"
    /\ UNCHANGED <<en_args, fetches, canon_res, en_out>>

\* Lines 281-283: the fetch and extraction of the canonical page.
FetchCanonical ==
    /\ en_pc = "canon"
    /\ \E o \in FetchOutcomes :
        /\ fetches' = Append(fetches, [stage |-> "canonical",
                                       url |-> Val(Val(en_args).canonical), out |-> o])
        /\ \E r \in {StageResult(o)} :
            IF r.raised
            THEN en_pc' = "raised" /\ UNCHANGED <<canon_res, en_out>>
            ELSE /\ canon_res' = Some(Pair(r))
                 /\ IF CanonicalSuffices(r.author, r.caption)
                    THEN en_pc' = "done" /\ en_out' = Some(Pair(r))
                    ELSE en_pc' = "mirror" /\ UNCHANGED en_out
    /\ UNCHANGED en_args

\* Line 284: the fetch and extraction of the mirror page.
FetchMirror ==
    /\ en_pc = "mirror"
    /\ \E o \in FetchOutcomes :
        /\ fetches' = Append(fetches, [stage |-> "mirror",
                                       url |-> Val(en_args).mirror, out |-> o])
        /\ \E r \in {StageResult(o)} :
            IF r.raised
            THEN en_pc' = "raised" /\ UNCHANGED en_out
            ELSE en_pc' = "done" /\ en_out' = Some(Pair(r))
    /\ UNCHANGED <<en_args, canon_res>>

----------------------------------------------------------------------------
(* on_message.                                                             *)

\* Line 335 without the check.
AlreadySeen_never(link, s) == FALSE

\* Line 335: if link in seen
AlreadySeen(link, s) == link \in s

\* Lines 323-333.
MsgStart ==
    /\ msg_pc = "start"
    /\ found_links' = IF Val(message).bot THEN <<>> ELSE findall(Val(message).content)
    /\ msg_pc' = IF Val(message).bot \/ findall(Val(message).content) = <<>>
                 THEN "noop" ELSE "rewrite"
    /\ idx' = 1
    /\ UNCHANGED <<message, seen, calls, triples, blocks>>

\* Lines 334-338: a link seen before is skipped, a new one is rewritten.
MsgNextLink ==
    /\ msg_pc = "rewrite" /\ rw_pc = "idle" /\ idx <= Len(found_links)
    /\ IF AlreadySeen(found_links[idx], seen)
       THEN /\ idx' = idx + 1
            /\ UNCHANGED <<seen, rwVars>>
       ELSE /\ seen' = seen \cup {found_links[idx]}
            /\ rw_url' = found_links[idx]
            /\ rw_pc' = "start"
            /\ UNCHANGED <<idx, rw_final, rw_out, reqs, head_out, get_out>>
    /\ UNCHANGED <<message, msg_pc, found_links, calls, triples, blocks>>

\* Lines 338-340: _rewrite_one returned.
MsgRewriteReturn ==
    /\ msg_pc = "rewrite" /\ rw_pc = "done"
    /\ calls' = Append(calls, [link |-> rw_url, mirror |-> rw_out.mirror])
    /\ triples' = IF rw_out.mirror # None /\ Val(rw_out.mirror) # ""
                  THEN Append(triples, [orig |-> rw_url, mirror |-> Val(rw_out.mirror),
                                        canonical |-> rw_out.canonical])
                  ELSE triples
    /\ idx' = idx + 1
    /\ rw_pc' = "idle" /\ rw_url' = "" /\ rw_final' = None /\ rw_out' = NoOutcome
    /\ reqs' = <<>> /\ head_out' = None /\ get_out' = None
    /\ UNCHANGED <<message, msg_pc, found_links, seen, blocks>>

\* Lines 342-348: nothing rewritten ends the handler.
MsgRewritten ==
    /\ msg_pc = "rewrite" /\ rw_pc = "idle" /\ idx > Len(found_links)
    /\ msg_pc' = IF triples = <<>> THEN "noop" ELSE "enrich"
    /\ idx' = 1
    /\ UNCHANGED <<message, found_links, seen, calls, triples, blocks>>

IsInstagram(orig) == EndsWith(HostOf(urlparse(orig)), "instagram.com")

\* Lines 349-355: an Instagram link is enriched, any other gets its block.
MsgNextTriple ==
    /\ msg_pc = "enrich" /\ en_pc = "idle" /\ idx <= Len(triples)
    /\ IF IsInstagram(triples[idx].orig)
       THEN /\ en_args' = Some([canonical |-> triples[idx].canonical,
                                mirror |-> triples[idx].mirror])
            /\ en_pc' = "call"
            /\ UNCHANGED <<idx, blocks, fetches, canon_res, en_out>>
       ELSE /\ blocks' = Append(blocks, [orig |-> triples[idx].orig,
                                         mirror |-> triples[idx].mirror,
                                         author |-> None, caption |-> None])
            /\ idx' = idx + 1
            /\ UNCHANGED enVars
    /\ UNCHANGED <<message, msg_pc, found_links, seen, calls, triples>>

\* Lines 352-353: _ig_author_caption returned.
MsgEnrichReturn ==
    /\ msg_pc = "enrich" /\ en_pc = "done"
    /\ blocks' = Append(blocks, [orig |-> triples[idx].orig,
                                 mirror |-> triples[idx].mirror,
                                 author |-> Val(en_out).author,
                                 caption |-> Val(en_out).caption])
    /\ idx' = idx + 1
    /\ en_pc' = "idle" /\ en_args' = None /\ fetches' = <<>>
    /\ canon_res' = None /\ en_out' = None
    /\ UNCHANGED <<message, msg_pc, found_links, seen, calls, triples>>

\* Line 352: _ig_author_caption raised; nothing in on_message catches it.
MsgEnrichRaised ==
    /\ msg_pc = "enrich" /\ en_pc = "raised"
    /\ msg_pc' = "aborted"
    /\ UNCHANGED <<message, found_links, idx, seen, calls, triples, blocks, enVars>>

\* Lines 357-370: every triple has its block; the repost is formatted and sent.
MsgPost ==
    /\ msg_pc = "enrich" /\ en_pc = "idle" /\ idx > Len(triples)
    /\ msg_pc' = "post"
    /\ UNCHANGED <<message, found_links, idx, seen, calls, triples, blocks, enVars>>

----------------------------------------------------------------------------
(* Messages.                                                               *)

\* Most links a modelled message holds.
MaxLinks == 3

MessageLinks ==
    {"https://x.com/u/1", "https://www.instagram.com/reel/abc/",
     "https://instagram.com/share/r/abc", "https://example.org/page",
     "http://[x.com/a"}

RECURSIVE Sentence(_, _)
Sentence(links, i) ==
    IF i > Len(links) THEN "."
    ELSE (IF i = 1 THEN "see " ELSE ", ") \o links[i] \o Sentence(links, i + 1)

Messages ==
    {"no links here"} \cup
    {Sentence(ls, 1) : ls \in UNION {[1..n -> MessageLinks] : n \in 1..MaxLinks}}

InitMsg ==
    /\ \E c \in Messages, b \in BOOLEAN : message = Some([content |-> c, bot |-> b])
    /\ msg_pc = "start"
    /\ found_links = <<>> /\ idx = 0 /\ seen = {}
    /\ calls = <<>> /\ triples = <<>> /\ blocks = <<>>
    /\ url = "" /\ phase = 0 /\ first = None
    /\ RwIdle /\ MetaIdle /\ EnIdle

NextMsg ==
    \/ MsgStart /\ UNCHANGED <<topVars, rwVars, metaVars, enVars>>
    \/ MsgNextLink /\ UNCHANGED <<topVars, metaVars, enVars>>
    \/ RewriteStart /\ UNCHANGED <<topVars, metaVars, msgVars, enVars>>
    \/ ResolveHead /\ UNCHANGED <<topVars, metaVars, msgVars, enVars>>
    \/ ResolveGet /\ UNCHANGED <<topVars, metaVars, msgVars, enVars>>
    \/ MsgRewriteReturn /\ UNCHANGED <<topVars, metaVars, enVars>>
    \/ MsgRewritten /\ UNCHANGED <<topVars, rwVars, metaVars, enVars>>
    \/ MsgNextTriple /\ UNCHANGED <<topVars, rwVars, metaVars>>
    \/ IgAuthorCaption /\ UNCHANGED <<topVars, rwVars, metaVars, msgVars>>
    \/ FetchCanonical /\ UNCHANGED <<topVars, rwVars, metaVars, msgVars>>
    \/ FetchMirror /\ UNCHANGED <<topVars, rwVars, metaVars, msgVars>>
    \/ MsgEnrichReturn /\ UNCHANGED <<topVars, rwVars, metaVars>>
    \/ MsgEnrichRaised /\ UNCHANGED <<topVars, rwVars, metaVars>>
    \/ MsgPost /\ UNCHANGED <<topVars, rwVars, metaVars>>

SpecMsg == InitMsg /\ [][NextMsg]_vars


----------------------------------------------------------------------------
(* _ig_author_caption on its own.                                          *)

CanonicalArgs ==
    {None, Some(""), Some("https://www.instagram.com/reel/abc/"),
     Some("https://www.instagram.com/p/Bq2/")}

MirrorArgs == {"https://kkinstagram.com/reel/abc/", "https://kkinstagram.com/p/Bq2/"}

InitEnrich ==
    /\ \E c \in CanonicalArgs, m \in MirrorArgs :
          en_args = Some([canonical |-> c, mirror |-> m])
    /\ en_pc = "call"
    /\ fetches = <<>> /\ canon_res = None /\ en_out = None
    /\ url = "" /\ phase = 0 /\ first = None
    /\ RwIdle /\ MetaIdle /\ MsgIdle

NextEnrich ==
    \/ IgAuthorCaption /\ UNCHANGED <<topVars, rwVars, metaVars, msgVars>>
    \/ FetchCanonical /\ UNCHANGED <<topVars, rwVars, metaVars, msgVars>>
    \/ FetchMirror /\ UNCHANGED <<topVars, rwVars, metaVars, msgVars>>

SpecEnrich == InitEnrich /\ [][NextEnrich]_vars

----------------------------------------------------------------------------
(* Properties of on_message, checked under SpecMsg.                        *)

\* The elements of seq from index i on that do not occur earlier in seq.
RECURSIVE Firsts(_, _)
Firsts(seq, i) ==
    IF i > Len(seq) THEN <<>>
    ELSE (IF \E j \in 1..(i - 1) : seq[j] = seq[i] THEN <<>> ELSE <<seq[i]>>)
             \o Firsts(seq, i + 1)

FirstIndex(seq, x) == MinOf({i \in 1..Len(seq) : seq[i] = x})

Mirrored == SelectSeq(calls, LAMBDA c : c.mirror # None)

\* C3: when the handler has built its blocks, _rewrite_one was called once
\* for each distinct link of the text, in the order of first occurrence;
\* there is exactly one block for each call that returned a mirror URL, with
\* that link and mirror, in the same order; and no link is in two blocks.
C3_BlocksInFirstOccurrenceOrder ==
    msg_pc = "post"
        => /\ found_links = findall(Val(message).content)
           /\ [i \in 1..Len(calls) |-> calls[i].link] = Firsts(found_links, 1)
           /\ Len(blocks) = Len(Mirrored)
           /\ \A i \in 1..Len(blocks) :
                /\ blocks[i].orig = Mirrored[i].link
                /\ blocks[i].mirror = Val(Mirrored[i].mirror)
           /\ \A i, j \in 1..Len(blocks) :
                i < j => /\ blocks[i].orig # blocks[j].orig
                         /\ FirstIndex(found_links, blocks[i].orig)
                                < FirstIndex(found_links, blocks[j].orig)

\* A text with a link, another link, and the first link again, both
\* rewritten: two blocks.
C3_Witness ==
    /\ msg_pc = "post"
    /\ Len(found_links) = 3
    /\ found_links[1] = found_links[3] /\ found_links[1] # found_links[2]
    /\ Len(blocks) = 2
    /\ blocks[1].orig = found_links[1]

\* C4: nothing raised while one link is rewritten or enriched aborts the
\* handler.
C4_LinkFailureNeverAborts == msg_pc # "aborted"

----------------------------------------------------------------------------
(* Properties of _ig_author_caption, checked under SpecEnrich.             *)

\* A stage gave neither author nor caption: its fetch failed, its page held
\* neither, or the extraction of its page raised.
YieldedNothing(f) ==
    /\ ~TruthyStr(StageResult(f.out).author)
    /\ ~TruthyStr(StageResult(f.out).caption)

CanonicalGiven == en_args # None /\ TruthyStr(Val(en_args).canonical)

MirrorFetched == \E i \in 1..Len(fetches) : fetches[i].stage = "mirror"

\* C6: the canonical URL is fetched first when one is given; the mirror URL
\* is fetched exactly when no canonical URL is given or the canonical stage
\* returned neither field; the value returned is that of the first stage
\* that gives a field, with both fields absent when every fetch fails; and
\* a call raises only out of the extraction of a page that was fetched.
C6_FallbackOrder ==
    /\ fetches # <<>>
          => /\ fetches[1].stage = IF CanonicalGiven THEN "canonical" ELSE "mirror"
             /\ fetches[1].url = IF CanonicalGiven THEN Val(Val(en_args).canonical)
                                 ELSE Val(en_args).mirror
    /\ Len(fetches) <= 2
    /\ Len(fetches) = 2
          => /\ fetches[2].stage = "mirror"
             /\ fetches[2].url = Val(en_args).mirror
    /\ en_pc \in {"done", "raised"}
          => (MirrorFetched <=> (~CanonicalGiven \/ YieldedNothing(fetches[1])))
    /\ en_pc = "done"
          => /\ en_out = Some(Pair(StageResult(fetches[Len(fetches)].out)))
             /\ \A i \in 1..(Len(fetches) - 1) : YieldedNothing(fetches[i])
             /\ (\A i \in 1..Len(fetches) : fetches[i].out.kind # "ok")
                    => en_out = Some([author |-> None, caption |-> None])
    /\ en_pc = "raised" => fetches[Len(fetches)].out.kind = "ok"

----------------------------------------------------------------------------
(* Properties of rewriting, checked under SpecRewrite.                     *)

RwReturned == rw_pc = "done"

\* The URL whose components the mirror is built from: the resolved URL of a
\* share link, the argument otherwise.
BaseUrl == IF rw_final # None THEN Val(rw_final) ELSE rw_url

SameButNetloc(m, b) ==
    /\ m.ok /\ b.ok
    /\ m.scheme = b.scheme
    /\ m.path = b.path
    /\ m.query = b.query
    /\ m.fragment = b.fragment

\* C1: rewriting is idempotent.  Every mirror host of DEFAULT_MIRRORS is in
\* SKIP_HOSTS; a call on a URL whose host is in SKIP_HOSTS returns no mirror
\* and no canonical; and the call on the mirror URL a first call returned
\* (generic or Instagram branch) issues no request and returns neither.
C1_Idempotent ==
    /\ \A k \in DOMAIN DEFAULT_MIRRORS : DEFAULT_MIRRORS[k] \in SKIP_HOSTS
    /\ (rw_pc # "start" /\ HostOf(urlparse(rw_url)) \in SKIP_HOSTS)
          => (RwReturned /\ rw_out = NoOutcome /\ reqs = <<>>)
    /\ (phase = 2 /\ rw_pc # "start")
          => (RwReturned /\ rw_out = NoOutcome /\ reqs = <<>>)

\* The mirror of a resolved share link has been rewritten again.
C1_Witness ==
    /\ phase = 2 /\ RwReturned
    /\ Val(first).reqs = <<"HEAD", "GET">>
    /\ Val(first).out.canonical # None

\* C2 as stated: the mirror URL differs from the URL _rewrite_one was given
\* in its host only, scheme, path, query and fragment being those of the
\* input.
C2_MirrorKeepsInputComponents ==
    (phase = 1 /\ RwReturned /\ rw_out.mirror # None)
        => SameButNetloc(urlparse(Val(rw_out.mirror)), urlparse(rw_url))

\* C2 amended: a classified host has a mirror in DEFAULT_MIRRORS; the mirror
\* URL has that mirror as its whole network location and the scheme, path,
\* query and fragment of the input URL, or of the resolved URL when the
\* input is an Instagram share link; and it never equals the input.
C2_OnlyNetlocChanges ==
    /\ pick_source(HostOf(urlparse(url))) # None
          => Val(pick_source(HostOf(urlparse(url)))) \in DOMAIN DEFAULT_MIRRORS
    /\ (phase = 1 /\ RwReturned /\ rw_out.mirror # None)
          => /\ SameButNetloc(urlparse(Val(rw_out.mirror)), urlparse(BaseUrl))
             /\ urlparse(Val(rw_out.mirror)).netloc
                    = DEFAULT_MIRRORS[Val(pick_source(HostOf(urlparse(rw_url))))]
             /\ Val(rw_out.mirror) # rw_url
             /\ (rw_final = None => Branch(rw_url) # "share")

\* A share link with port, query and fragment was resolved to another URL
\* and mirrored.
C2_Witness ==
    /\ phase = 1 /\ RwReturned /\ rw_out.mirror # None
    /\ rw_final # None /\ BaseUrl # rw_url
    /\ urlparse(rw_url).query # "" /\ urlparse(rw_url).fragment # ""
    /\ urlparse(rw_url).netloc # HostOf(urlparse(rw_url))

\* A HEAD attempt failed: it raised, or its response was not redirected.
HeadFailed ==
    \/ Val(head_out).kind \in HttpErrors
    \/ Val(head_out).url = rw_url

\* C5: the resolver issues HEAD first, issues GET exactly when the HEAD
\* attempt failed (timeout, network error, protocol error or a response
\* that was not redirected), issues at most one HEAD and one GET, and
\* returns None when both attempts fail.
C5_GetExactlyWhenHeadFailed ==
    (RwReturned /\ reqs # <<>>)
        => /\ reqs[1] = "HEAD"
           /\ Len(reqs) <= 2
           /\ (Len(reqs) = 2 => reqs[2] = "GET")
           /\ (Len(reqs) = 2) <=> HeadFailed
           /\ (get_out # None /\ Val(get_out).kind \in HttpErrors) => rw_final = None

PlatformApexes ==
    {"twitter.com", "x.com", "instagram.com", "reddit.com", "tiktok.com", "bsky.app"}

IsPlatformHost(h) ==
    \E apex \in PlatformApexes : h = apex \/ EndsWith(h, "." \o apex)

\* Both requests of the resolver raised.
ResolutionFailed ==
    /\ Branch(rw_url) = "share"
    /\ reqs = <<"HEAD", "GET">>
    /\ Val(head_out).kind \in HttpErrors
    /\ Val(get_out).kind \in HttpErrors

MirrorablePath(path) ==
    /\ ~StartsWith(path, "/stories/")
    /\ \/ StartsWith(path, "/reel/")
       \/ StartsWith(path, "/p/")
       \/ StartsWith(path, "/tv/")

\* C7: on the Instagram branch the call returns neither mirror nor canonical
\* exactly when the path is a share link whose resolution failed; otherwise
\* the canonical URL is the resolved URL (share link) or the input, and a
\* mirror is produced exactly when the classified path is not a story and
\* starts with /reel/, /p/ or /tv/.
C7_InstagramClassification ==
    (RwReturned /\ Branch(rw_url) \in {"share", "instagram"})
        => /\ (rw_out = NoOutcome) <=> ResolutionFailed
           /\ ~ResolutionFailed
                => /\ rw_out.canonical = Some(BaseUrl)
                   /\ (Branch(rw_url) = "share") <=> (rw_final # None)
                   /\ (rw_out.mirror # None)
                        <=> MirrorablePath(urlparse(BaseUrl).path)

\* A share link resolved by the GET fallback to a story: canonical, no mirror.
C7_Witness ==
    /\ RwReturned /\ Branch(rw_url) = "share"
    /\ reqs = <<"HEAD", "GET">>
    /\ rw_out.canonical # None /\ rw_out.mirror = None
    /\ StartsWith(urlparse(BaseUrl).path, "/stories/")

\* C10: a source key is picked for the host of a call, and a mirror is
\* returned by it, only if the host is a platform apex domain or a
\* dot-separated subdomain of one.
C10_OnlyPlatformHosts ==
    /\ (phase = 1 /\ RwReturned /\ Branch(rw_url) = "generic"
            /\ pick_source(HostOf(urlparse(rw_url))) # None)
          => IsPlatformHost(HostOf(urlparse(rw_url)))
    /\ (phase = 1 /\ RwReturned /\ rw_out.mirror # None)
          => IsPlatformHost(HostOf(urlparse(rw_url)))

----------------------------------------------------------------------------
(* Properties of the metadata extractor, checked under SpecMeta.           *)

PrimaryTitle == NonEmpty(FindMeta(Val(html).metas, "property", "og:title"))
PrimaryDesc == NonEmpty(FindMeta(Val(html).metas, "property", "og:description"))
SecondaryDesc == NonEmpty(FindMeta(Val(html).metas, "name", "twitter:description"))

\* The description of the page: the primary tag's, else the secondary tag's.
TheDesc == IF PrimaryDesc # None THEN PrimaryDesc ELSE SecondaryDesc

\* The text after normalization and truncation, None when nothing is left.
Normalized(text) ==
    IF compact_ws(text) = "" THEN None ELSE Some(truncate(compact_ws(text)))

WithoutTag(page, key) ==
    [page EXCEPT !.metas = SelectSeq(page.metas, LAMBDA t : t.key # key)]

\* C8 as stated: whenever a description is present the extracted caption is
\* the description (normalized, truncated; a blank one counting as no
\* caption, and the empty caption of C9 set aside).
C8_CaptionIsDescription ==
    (meta_pc = "done" /\ TheDesc # None /\ Val(meta_out).caption # Some(""))
        => Val(meta_out).caption = Normalized(Val(TheDesc))

\* C8 amended: a description that is not blank is the caption; a blank one
\* still discards the title's caption, so that without structured data there
\* is no caption; a primary tag makes the secondary tag irrelevant; a field
\* the tags gave is returned as the tags gave it; and when the tags gave
\* both fields the structured data changes nothing.
C8_Precedence ==
    /\ (meta_pc = "done" /\ TheDesc # None /\ Normalized(Val(TheDesc)) # None)
          => Val(meta_out).caption = Normalized(Val(TheDesc))
    /\ (meta_pc = "done" /\ TheDesc # None /\ Normalized(Val(TheDesc)) = None
            /\ Val(html).scripts = <<>>)
          => Val(meta_out).caption = None
    /\ (meta_pc # "ready" /\ PrimaryTitle # None)
          => extract_og_twitter_meta(WithoutTag(Val(html), "twitter:title"))
                = extract_og_twitter_meta(Val(html))
    /\ (meta_pc # "ready" /\ PrimaryDesc # None)
          => extract_og_twitter_meta(WithoutTag(Val(html), "twitter:description"))
                = extract_og_twitter_meta(Val(html))
    /\ (meta_pc = "done" /\ Truthy(FromTags(Val(html)).author))
          => Val(meta_out).author = Normalized(Val(FromTags(Val(html)).author).s)
    /\ (meta_pc # "ready" /\ Truthy(FromTags(Val(html)).author)
            /\ Truthy(FromTags(Val(html)).caption))
          => /\ meta_pc = "done"
             /\ extract_og_twitter_meta([Val(html) EXCEPT !.scripts = <<>>])
                    = extract_og_twitter_meta(Val(html))

\* A page whose title holds a caption and that has a description and
\* structured data: the caption returned is the description.
C8_Witness ==
    /\ meta_pc = "done"
    /\ PrimaryDesc # None /\ SecondaryDesc # None /\ PrimaryTitle # None
    /\ TitleMatch(Strip(Val(PrimaryTitle))) # None
    /\ Val(TitleMatch(Strip(Val(PrimaryTitle)))).g2 # ""
    /\ Val(html).scripts # <<>>
    /\ Val(meta_out).caption = Some("A description")

\* C9: each field the extractor returns is absent or a string that is not
\* empty.
C9_NoEmptyStrings ==
    meta_pc = "done"
        => /\ Val(meta_out).author # Some("")
           /\ Val(meta_out).caption # Some("")

====
